---------------------------- MODULE Spec2Model ----------------------------
(***************************************************************************)
(* Health & Safety Assistant: the vector store (loadIndex, searchIndex,    *)
(* dotProduct), the startup preload of globalIndex, and the /ask request   *)
(* path (queryFaissIndex, generateHSReport, the route handler) in the      *)
(* variants the repository holds.                                          *)
(*                                                                         *)
(* Numbers are fixed point: an embedding component c stands for c / Scale, *)
(* a score s for s / (Scale * Scale).  A file is a sequence of tokens: the *)
(* punctuation of the record syntax, whitespace, and one token per member  *)
(* ("T1" for  "text":"..."  and "E1" for  "embedding":[1,0] ).             *)
(*                                                                         *)
(* One action is one turn of the Node.js event loop: the code that runs    *)
(* from the completion of an I/O operation up to the next await on I/O.    *)
(***************************************************************************)
EXTENDS Integers, Sequences, FiniteSets, TLC

\* ------------------------------------------------------------------ bounds

\* Records in a generated index file.
MaxRecs == 3

\* Largest limit passed to a direct loadIndex call.
MaxLimit == 3

\* Concurrent /ask requests (or direct calls) in one behaviour.
NReq == 2

\* Tokens per block the server's read stream delivers.
HighWaterMark == 8

\* Runs of the browser's click handler that may exist at once.
MaxHandlers == 2

\* ------------------------------------------------------- program constants

Scale == 10

\* loadIndex(10000) of the startup preload and of the request-path fallback.
PreloadLimit == 10000

\* .slice(0, 10) and Math.min(10, index.ntotal)
TopK == 10

\* m.score >= 0.03, in units of 1 / (Scale * Scale)
MinScore == 3

\* query.length < 3
MinQueryLen == 3

VARIABLES
  mode,         \* "server": the process; "load" / "search": a direct call of the export
  variant,      \* which queryFaissIndex the server runs
  storeKind,    \* "dot": chunk-safe vector_store.js; "faiss": FAISS-binary vector_store.js
  file,         \* the index file on disk
  loader,       \* per loadIndex call: pc, buffer, pos, limit
  vectors,      \* per loadIndex call: the array `vectors` (the heap object it returns)
  globalIndex,  \* Null or a reference to a vectors array
  indexReady,   \* the flag of the indexReady variant
  loadCalls,    \* how many times loadIndex has been invoked, and by whom
  req,          \* per request: the handler's locals and its position
  provider,     \* the Embedding Provider: query -> vector, fixed for a behaviour
  page          \* the browser page of public/script.js: its elements and handlers

serverVars == << mode, variant, storeKind, file, loader, vectors, globalIndex,
                 indexReady, loadCalls, req, provider >>

vars == << serverVars, page >>

Requests == 1 .. NReq
Preload  == 0
Loaders  == 0 .. NReq

\* A nullable reference: <<>> is null, <<p>> refers to the array vectors[p].
Null == << >>
Ref(p) == << p >>

Min(a, b) == IF a < b THEN a ELSE b

Take(s, n) == SubSeq(s, 1, Min(n, Len(s)))

\* ------------------------------------------------------------- file format

EmbTokens  == { "E1", "E2", "E3", "E4", "E5" }
TextTokens == { "T1", "T2", "T3", "T4", "T5", "T6" }

\* The member  "note":"embedding" : its text holds the quoted word the
\* loader looks for, and the record has no embedding property.
NoteTokens == { "NE" }

\* The value of the member  "embedding":[...]  a token stands for.
EmbOf(t) ==
  CASE t = "E1" -> << 10, 0 >>
    [] t = "E2" -> << 0, 10 >>
    [] t = "E3" -> << 7, 7 >>
    [] t = "E4" -> << 3, 0 >>
    [] t = "E5" -> << 10, 0, 0 >>

TextOf(t) ==
  CASE t = "T1" -> "alpha"
    [] t = "T2" -> "beta"
    [] t = "T3" -> "gamma"
    [] t = "T4" -> "delta"
    [] t = "T5" -> "epsilon"
    [] t = "T6" -> "zeta"

\* The kinds of record a generated file holds: three well-formed chunks, a
\* well-formed record without an embedding, and a record that has the
\* embedding member but is not valid JSON.
GoodKinds == { "G1", "G2", "G3" }
RecKinds  == GoodKinds \cup { "N", "B" }

RecTokens(k) ==
  CASE k = "G1" -> << "{", "T1", ",", "E1", "}" >>
    [] k = "G2" -> << "{", "T2", ",", "E2", "}" >>
    [] k = "G3" -> << "{", "T3", ",", "E3", "}" >>
    [] k = "G4" -> << "{", "T4", ",", "E4", "}" >>
    [] k = "D"  -> << "{", "T5", ",", "E5", "}" >>
    [] k = "M"  -> << "{", "T6", ",", "NE", "}" >>
    [] k = "N"  -> << "{", "T1", "}" >>
    [] k = "B"  -> << "{", "T2", ",", "E2", "X", "}" >>

\* How records are separated: "," (one line), ",\n" (one record per line,
\* comma-terminated) or "\n" (line-delimited JSON).
Separators == { "comma", "commanl", "nl" }

SepTokens(s) ==
  CASE s = "comma"   -> << "," >>
    [] s = "commanl" -> << ",", "\n" >>
    [] s = "nl"      -> << "\n" >>

RECURSIVE Render(_, _, _)
Render(recs, sep, trail) ==
  IF recs = << >> THEN << >>
  ELSE RecTokens(Head(recs))
       \o (IF Len(recs) > 1 \/ trail THEN SepTokens(sep) ELSE << >>)
       \o Render(Tail(recs), sep, trail)

FileBytes(f) == Render(f.recs, f.sep, f.trail)

\* --------------------------------------------------------------- JSON.parse

IsMember(t) == t \in EmbTokens \cup TextTokens \cup NoteTokens

MemberObj(t) ==
  IF t \in EmbTokens THEN ("embedding" :> EmbOf(t))
  ELSE IF t \in NoteTokens THEN ("note" :> "embedding")
  ELSE ("text" :> TextOf(t))

\* The object of a member list; a repeated key keeps its last value.
RECURSIVE ObjOf(_)
ObjOf(ms) ==
  IF ms = << >> THEN << >>
  ELSE MemberObj(ms[Len(ms)]) @@ ObjOf(SubSeq(ms, 1, Len(ms) - 1))

NotSpace(t) == t # "\n"

\* JSON.parse of a token sequence: whitespace is insignificant, the value
\* must be one object  { member (, member)* }  or  { } .
JSONparse(str) ==
  CHOOSE out \in
    { LET n     == Len(w)
          inner == IF n >= 2 THEN SubSeq(w, 2, n - 1) ELSE << >>
          m     == Len(inner)
          wellFormed ==
            /\ n >= 2
            /\ w[1] = "{"
            /\ w[n] = "}"
            /\ \/ m = 0
               \/ /\ m % 2 = 1
                  /\ \A i \in 1 .. m :
                       IF i % 2 = 1 THEN IsMember(inner[i]) ELSE inner[i] = ","
          members == SelectSeq(inner, IsMember)
      IN IF wellFormed THEN [ ok |-> TRUE, obj |-> ObjOf(members) ]
         ELSE [ ok |-> FALSE, obj |-> << >> ]
      : w \in { SelectSeq(str, NotSpace) } } : TRUE

\* ---------------------------------------------------------------- loadIndex

\* buffer.split("},")
RECURSIVE Split(_)
Split(str) ==
  CHOOSE out \in
    { LET hits == { i \in 1 .. Len(s) - 1 : s[i] = "}" /\ s[i + 1] = "," }
      IN IF hits = { } THEN << s >>
         ELSE LET i == CHOOSE j \in hits : \A k \in hits : j <= k
              IN << SubSeq(s, 1, i - 1) >> \o Split(SubSeq(s, i + 2, Len(s)))
      : s \in { str } } : TRUE

\* p.includes('"embedding"')
IncludesEmbedding(p) ==
  \E i \in 1 .. Len(p) : p[i] \in EmbTokens \cup NoteTokens

\* p.endsWith("}") ? p : p + "}"
Closed(p) == IF p # << >> /\ p[Len(p)] = "}" THEN p ELSE Append(p, "}")

\* What the try block of the loop body makes of one part.
ParsePart(part) ==
  CHOOSE out \in
    { IF IncludesEmbedding(p) THEN JSONparse(Closed(p))
      ELSE [ ok |-> FALSE, obj |-> << >> ]
      : p \in { part } } : TRUE

\* if (vectors.length >= limit)
LimitReached(vecs, limit) == Len(vecs) >= limit

\* for (const p of parts) { ... }: the vectors array after the loop, and
\* whether the loop left through the limit branch.
RECURSIVE ProcessParts(_, _, _)
ProcessParts(parts, vecs, limit) ==
  IF parts = << >> THEN [ vectors |-> vecs, hit |-> FALSE ]
  ELSE CHOOSE out \in
         { IF r.ok /\ LimitReached(v2, limit)
           THEN [ vectors |-> v2, hit |-> TRUE ]
           ELSE ProcessParts(rest, v2, limit)
           : r \in { ParsePart(Head(parts)) },
             v2 \in { IF ParsePart(Head(parts)).ok
                      THEN Append(vecs, ParsePart(Head(parts)).obj)
                      ELSE vecs },
             rest \in { Tail(parts) } } : TRUE

\* A loop body that starts each chunk afresh: buffer = "".
CarryOfDropped(buf) == << >>

\* const parts = buffer.split("},"); buffer = parts.pop();
PartsOf(buf) == LET all == Split(buf) IN SubSeq(all, 1, Len(all) - 1)
CarryOf(buf) == LET all == Split(buf) IN all[Len(all)]


\* The state of a loadIndex call before it starts.  reads counts the stream
\* chunks delivered so far (up to 2); cutSep records that a chunk ended
\* between the "}" and the "," of a record separator.
IdleLoader ==
  [ pc |-> "idle", buffer |-> << >>, pos |-> 0, limit |-> 0, reads |-> 0,
    cutSep |-> FALSE ]

\* loadIndex(limit) up to  await fs.promises.open(INDEX_PATH, "r") .
StartedLoader(limit) ==
  [ pc |-> "opening", buffer |-> << >>, pos |-> 0, limit |-> limit,
    reads |-> 0, cutSep |-> FALSE ]

\* The sizes the stream may deliver next: the server reads the file in
\* blocks of HighWaterMark tokens, a direct call is cut anywhere.
ReadSizes(p) ==
  LET left == Len(FileBytes(file)) - loader[p].pos
  IN IF mode = "server" THEN { Min(HighWaterMark, left) } ELSE 1 .. left

\* The body of  for await (const chunk of stream)  for one chunk of n tokens.
AfterChunk(ld, vecs, n) ==
  LET bytes == FileBytes(file)
      buf   == ld.buffer \o SubSeq(bytes, ld.pos + 1, ld.pos + n)
      res   == ProcessParts(PartsOf(buf), vecs, ld.limit)
      end   == ld.pos + n
      cut   == /\ end < Len(bytes)
               /\ bytes[end] = "}"
               /\ bytes[end + 1] = ","
  IN [ loader  |-> [ ld EXCEPT !.buffer = CarryOf(buf),
                               !.pos = end,
                               !.reads = Min(ld.reads + 1, 2),
                               !.cutSep = ld.cutSep \/ cut,
                               !.pc = IF res.hit THEN "closing" ELSE "reading" ],
       vectors |-> res.vectors ]

\* ------------------------------------------------------------ the preload

\* A load that publishes its array before filling it: globalIndex refers
\* to `vectors` from the moment the file is open.
PreloadOpenedPublishes(p) == globalIndex' = Ref(p) /\ UNCHANGED indexReady

\* The preload while loadIndex runs: `vectors` is a local of loadIndex and
\* the assignment to globalIndex waits for the await to complete.
PreloadOpened(p) == UNCHANGED << globalIndex, indexReady >>

\* globalIndex = await loadIndex(10000);  (indexReady = true;)
PreloadAssign(p) == Ref(p)

PreloadReturned(p) ==
  /\ globalIndex' = PreloadAssign(p)
  /\ indexReady' = (variant = "ready")

\* A catch block that installs an empty store: globalIndex = [].
PreloadThrewEmptyStore == globalIndex' = Ref(Preload) /\ UNCHANGED indexReady

\* A preload that raises the flag on every path:
\* finally { indexReady = true; }
PreloadThrewReady ==
  indexReady' = (variant = "ready") /\ UNCHANGED globalIndex

\* catch (e) { console.error(...) }
PreloadThrew == UNCHANGED << globalIndex, indexReady >>

\* ------------------------------------------------------------ JS values

\* The `question` of a request body, or the rawQuery of a direct call.
Str(s)    == [ t |-> "string", s |-> s, n |-> 0 ]
Num(n)    == [ t |-> "number", s |-> << >>, n |-> n ]
NullV     == [ t |-> "null", s |-> << >>, n |-> 0 ]
Undefined == [ t |-> "undefined", s |-> << >>, n |-> 0 ]

\* !!v
Truthy(v) ==
  CASE v.t = "string" -> v.s # << >>
    [] v.t = "number" -> v.n # 0
    [] OTHER -> FALSE

DigitChars == << "0", "1", "2", "3", "4", "5", "6", "7", "8", "9" >>

RECURSIVE DigitsOf(_)
DigitsOf(n) ==
  IF n < 10 THEN << DigitChars[n + 1] >>
  ELSE Append(DigitsOf(n \div 10), DigitChars[(n % 10) + 1])

\* String(v)
JSString(v) ==
  CASE v.t = "string" -> v.s
    [] v.t = "number" -> DigitsOf(v.n)
    [] v.t = "null" -> << "n", "u", "l", "l" >>
    [] OTHER -> << "u", "n", "d", "e", "f", "i", "n", "e", "d" >>

IsSpace(c) == c \in { " ", "\n", "\t" }

RECURSIVE TrimStart(_)
TrimStart(s) ==
  IF s # << >> /\ IsSpace(Head(s)) THEN TrimStart(Tail(s)) ELSE s

RECURSIVE TrimEnd(_)
TrimEnd(s) ==
  IF s # << >> /\ IsSpace(s[Len(s)]) THEN TrimEnd(SubSeq(s, 1, Len(s) - 1))
  ELSE s

Trim(s) == TrimEnd(TrimStart(s))

\* -------------------------------------------------------------- searchIndex

\* (typeof rawQuery === "string" ? rawQuery : String(rawQuery || "")).trim()
QueryOf(raw) ==
  Trim(IF raw.t = "string" THEN raw.s
       ELSE IF Truthy(raw) THEN JSString(raw) ELSE << >>)

\* The length test off by one: query.length < 2.
RejectedOffByOne(query) == query = << >> \/ Len(query) < MinQueryLen - 1

\* Only the emptiness test: if (!query).
RejectedEmptyOnly(query) == query = << >>

\* if (!query || query.length < 3)
Rejected(query) == query = << >> \/ Len(query) < MinQueryLen

\* obj[k], with undefined as Null and a value v as <<v>>.
Field(obj, k) == IF k \in DOMAIN obj THEN << obj[k] >> ELSE Null

RECURSIVE SumProd(_, _, _)
SumProd(a, b, i) ==
  IF i > Len(a) THEN 0 ELSE a[i] * b[i] + SumProd(a, b, i + 1)

\* A reduce that drops the index: every term uses b[0].
DotProductFirstOnly(a, b) ==
  IF a = Null \/ b = Null THEN 0
  ELSE IF Len(a[1]) # Len(b[1]) THEN 0
  ELSE IF Len(a[1]) = 0 THEN 0
  ELSE SumProd(a[1], [ i \in 1 .. Len(a[1]) |-> b[1][1] ], 1)

\* A dotProduct without the length test, summing over the shorter vector.
DotProductPrefix(a, b) ==
  IF a = Null \/ b = Null THEN 0
  ELSE LET n == Min(Len(a[1]), Len(b[1]))
       IN SumProd(SubSeq(a[1], 1, n), SubSeq(b[1], 1, n), 1)

\* dotProduct(a, b), a and b nullable.
DotProduct(a, b) ==
  IF a = Null \/ b = Null THEN 0
  ELSE IF Len(a[1]) # Len(b[1]) THEN 0
  ELSE SumProd(a[1], b[1], 1)

\* { ...v, score: dotProduct(q, v.embedding) }
Scored(q, v) == ("score" :> DotProduct(<< q >>, Field(v, "embedding"))) @@ v

\* index.map(v => ({ ...v, score: ... }))
MapScores(q, index) == [ i \in 1 .. Len(index) |-> Scored(q, index[i]) ]

\* A sort that puts a later element before earlier ones of equal score.
RECURSIVE InsertByScoreStrict(_, _)
InsertByScoreStrict(x, s) ==
  IF s = << >> THEN << x >>
  ELSE IF Head(s).score > x.score
       THEN << Head(s) >> \o InsertByScoreStrict(x, Tail(s))
       ELSE << x >> \o s

\* Array.prototype.sort with (a, b) => b.score - a.score: stable, descending.
RECURSIVE InsertByScore(_, _)
InsertByScore(x, s) ==
  IF s = << >> THEN << x >>
  ELSE IF Head(s).score >= x.score
       THEN << Head(s) >> \o InsertByScore(x, Tail(s))
       ELSE << x >> \o s

RECURSIVE SortByScore(_)
SortByScore(s) ==
  IF s = << >> THEN << >>
  ELSE InsertByScore(s[Len(s)], SortByScore(SubSeq(s, 1, Len(s) - 1)))

\* The sorted scores without the slice.
DotSearchNoSlice(q, index) == SortByScore(MapScores(q, index))

\* scores.sort(...).slice(0, 10)
DotSearch(q, index) == Take(SortByScore(MapScores(q, index)), TopK)

\* A search that leaves the stored array reversed: index.reverse().
IndexAfterSearchReversed(q, index) ==
  [ i \in 1 .. Len(index) |-> index[Len(index) + 1 - i] ]

\* Scoring and sorting the stored array itself:
\* index.forEach(v => { v.score = ... }); index.sort(...)
IndexAfterSearchInPlace(q, index) == SortByScore(MapScores(q, index))

\* The array passed as `index`, after searchIndex has run on it: map and the
\* spread build new objects and sort works on that new array.
IndexAfterSearch(q, index) == index

\* An error path that empties the array: index.length = 0.
IndexAfterFailureCleared(index) == << >>

\* The array passed as `index`, after the embedding call has thrown: the
\* error leaves searchIndex before `index` is read.
IndexAfterFailure(index) == index

\* FAISS-binary variant.  index.search(q, k) of an L2 index: the k nearest
\* vectors, nearest first; labels are positions counted from 0.
RECURSIVE SqDist(_, _, _)
SqDist(a, b, i) ==
  IF i > Len(a) THEN 0
  ELSE (a[i] - b[i]) * (a[i] - b[i]) + SqDist(a, b, i + 1)

\* const k = Math.min(10, index.ntotal)
FaissK(index) == Min(TopK, Len(index))

\* results.push({ id: labels[i], score: 1 - distances[i] })
FaissSearch(q, index) ==
  Take(SortByScore([ i \in 1 .. Len(index) |->
         [ id |-> i - 1,
           score |-> Scale * Scale - SqDist(q, index[i].embedding, 1) ] ]),
       FaissK(index))

\* ------------------------------------------------------------ verifyOrigin

\* Strings are sequences of characters.
Lowers ==
  << "a", "b", "c", "d", "e", "f", "g", "h", "i", "j", "k", "l", "m", "n",
     "o", "p", "q", "r", "s", "t", "u", "v", "w", "x", "y", "z" >>
Uppers ==
  << "A", "B", "C", "D", "E", "F", "G", "H", "I", "J", "K", "L", "M", "N",
     "O", "P", "Q", "R", "S", "T", "U", "V", "W", "X", "Y", "Z" >>
Digits == { "0", "1", "2", "3", "4", "5", "6", "7", "8", "9" }

IndexIn(c, seq) ==
  IF \E i \in 1 .. Len(seq) : seq[i] = c
  THEN CHOOSE i \in 1 .. Len(seq) : seq[i] = c
  ELSE 0

ToLower(c) == IF IndexIn(c, Uppers) > 0 THEN Lowers[IndexIn(c, Uppers)] ELSE c
LowerCase(str) == [ i \in 1 .. Len(str) |-> ToLower(str[i]) ]

IsAlpha(c) == IndexIn(c, Lowers) > 0 \/ IndexIn(c, Uppers) > 0

\* The first / last position of a character of cs in str, 0 if there is none.
FirstOf(cs, str) ==
  IF \E i \in 1 .. Len(str) : str[i] \in cs
  THEN CHOOSE i \in 1 .. Len(str) :
         str[i] \in cs /\ \A j \in 1 .. i - 1 : str[j] \notin cs
  ELSE 0
LastOf(cs, str) ==
  IF \E i \in 1 .. Len(str) : str[i] \in cs
  THEN CHOOSE i \in 1 .. Len(str) :
         str[i] \in cs /\ \A j \in i + 1 .. Len(str) : str[j] \notin cs
  ELSE 0

RECURSIVE SkipSlashes(_)
SkipSlashes(str) ==
  IF str # << >> /\ Head(str) \in { "/", "\\" } THEN SkipSlashes(Tail(str))
  ELSE str

SpecialSchemes ==
  { << "h", "t", "t", "p" >>, << "h", "t", "t", "p", "s" >> }

\* Code points a host may not contain.
ForbiddenHost == { " ", "<", ">", "^", "|", "[", "]" }

URLFailure == [ ok |-> FALSE, hostname |-> << >> ]

\* The host of an authority: what follows the last "@", without a port.
HostOfAuthority(auth, special) ==
  LET at      == LastOf({ "@" }, auth)
      hostport == SubSeq(auth, at + 1, Len(auth))
      colon   == FirstOf({ ":" }, hostport)
      host    == IF colon = 0 THEN hostport ELSE SubSeq(hostport, 1, colon - 1)
      port    == IF colon = 0 THEN << >>
                 ELSE SubSeq(hostport, colon + 1, Len(hostport))
  IN IF \E i \in 1 .. Len(port) : port[i] \notin Digits THEN URLFailure
     ELSE IF special /\ host = << >> THEN URLFailure
     ELSE IF \E i \in 1 .. Len(host) : host[i] \in ForbiddenHost THEN URLFailure
     ELSE [ ok |-> TRUE,
            hostname |-> IF special THEN LowerCase(host) ELSE host ]

\* new URL(origin), without a base: { ok, hostname }, ok = FALSE when the
\* constructor throws.  Covers the http and https schemes (the authority
\* follows the colon and any slashes, the host is lowercased) and schemes
\* that are not special (an authority only after "//", no lowercasing).
ParseURL(str) ==
  LET colon  == FirstOf({ ":" }, str)
      scheme == LowerCase(SubSeq(str, 1, colon - 1))
      rest   == SubSeq(str, colon + 1, Len(str))
      special == scheme \in SpecialSchemes
      after  == IF special THEN SkipSlashes(rest)
                ELSE SubSeq(rest, 3, Len(rest))
      stop   == FirstOf(IF special THEN { "/", "\\", "?", "#" }
                        ELSE { "/", "?", "#" }, after)
      auth   == IF stop = 0 THEN after ELSE SubSeq(after, 1, stop - 1)
  IN IF colon <= 1 THEN URLFailure
     ELSE IF ~IsAlpha(str[1]) THEN URLFailure
     ELSE IF \E i \in 2 .. colon - 1 :
               ~(IsAlpha(str[i]) \/ str[i] \in Digits \cup { "+", "-", "." })
     THEN URLFailure
     ELSE IF ~special /\ ~(Len(rest) >= 2 /\ rest[1] = "/" /\ rest[2] = "/")
     THEN [ ok |-> TRUE, hostname |-> << >> ]
     ELSE HostOfAuthority(auth, special)

\* const allowedDomains = [ "assistants.aivs.uk",
\*                          "hands-advice-assistant-1.onrender.com" ];
allowedDomains ==
  << << "a", "s", "s", "i", "s", "t", "a", "n", "t", "s", ".", "a", "i",
        "v", "s", ".", "u", "k" >>,
     << "h", "a", "n", "d", "s", "-", "a", "d", "v", "i", "c", "e", "-",
        "a", "s", "s", "i", "s", "t", "a", "n", "t", "-", "1", ".", "o",
        "n", "r", "e", "n", "d", "e", "r", ".", "c", "o", "m" >> >>

\* hostname.endsWith(suffix)
EndsWith(str, suffix) ==
  /\ Len(suffix) <= Len(str)
  /\ SubSeq(str, Len(str) - Len(suffix) + 1, Len(str)) = suffix

\* A check that forgets the dot: hostname.endsWith(d)
AllowedNoDot(hostname) ==
  \E k \in 1 .. Len(allowedDomains) :
    hostname = allowedDomains[k] \/ EndsWith(hostname, allowedDomains[k])

\* allowedDomains.some((d) => hostname === d || hostname.endsWith("." + d))
Allowed(hostname) ==
  \E k \in 1 .. Len(allowedDomains) :
    \/ hostname = allowedDomains[k]
    \/ EndsWith(hostname, << "." >> \o allowedDomains[k])

\* ------------------------------------------------------- the request path

Variants == { "guarded", "reload", "emptyguard", "ready" }

\* The fairness audit call inside generateHSReport.
HasFairness(v) == v \in { "guarded", "reload" }

\* PDF / DOCX rendering and the Mailjet send in the route handler.
HasDelivery(v) == v # "ready"

\* Whether the Mailjet send sits in its own try / catch.
MailInTry(v) == v = "guarded"

IdleReq ==
  [ pc |-> "idle", question |-> Undefined, index |-> Null, query |-> << >>,
    matches |-> << >>, searched |-> FALSE, joined |-> << >>, count |-> 0,
    retrieved |-> FALSE, status |-> 0, responses |-> 0, answer |-> "none",
    searchCalls |-> 0, embedCalls |-> 0, llmCalls |-> 0, mails |-> 0,
    qvec |-> << >>, embedFailed |-> FALSE, atNull |-> FALSE,
    loadFailed |-> FALSE, prev |-> Null, failed |-> "none",
    origin |-> Undefined ]

\* res.status(status).json(...)
Respond(rq, status, answer) ==
  [ rq EXCEPT !.pc = "done", !.status = status, !.responses = @ + 1,
              !.answer = answer ]

\* generateHSReport from the return of queryFaissIndex to
\* await openai.chat.completions.create(...)
AfterRetrieval(rq, joined, count) ==
  [ rq EXCEPT !.joined = joined, !.count = count, !.retrieved = TRUE,
              !.pc = "llm", !.llmCalls = @ + 1 ]

\* The cutoff as a strict comparison: m.score > 0.03.
AboveCutoffStrict(m) == m.score > MinScore

\* (m) => m.score >= 0.03
AboveCutoff(m) == m.score >= MinScore

\* texts.join("\n\n"), as the sequence of its non-empty pieces; an
\* undefined element joins as the empty string.
RECURSIVE Join(_)
Join(texts) ==
  IF texts = << >> THEN << >>
  ELSE Head(texts) \o (IF Len(texts) > 1 THEN << "\n\n" >> ELSE << >>)
       \o Join(Tail(texts))

\* queryFaissIndex from the return of searchIndex to its own return.
Context(matches) ==
  LET filtered == SelectSeq(matches, AboveCutoff)
      texts    == [ i \in 1 .. Len(filtered) |-> Field(filtered[i], "text") ]
  IN [ joined |-> Join(texts), count |-> Len(filtered) ]

\* searchIndex has returned `matches` to its caller.
AfterSearch(rq, matches) ==
  LET r1 == [ rq EXCEPT !.matches = matches, !.searched = TRUE ]
  IN IF mode = "search" THEN [ r1 EXCEPT !.pc = "returned" ]
     ELSE AfterRetrieval(r1, Context(matches).joined, Context(matches).count)

\* A queryFaissIndex without the try / catch: the error reaches the route
\* handler's catch, which answers 500.
SearchThrewToCaller(rq) ==
  IF mode = "search" THEN [ rq EXCEPT !.pc = "threw" ]
  ELSE Respond(rq, 500, "error")

\* searchIndex or loadIndex has thrown: in a direct call the error reaches
\* the caller; queryFaissIndex catches it and returns { joined: "", count: 0 }.
SearchThrew(rq) ==
  IF mode = "search" THEN [ rq EXCEPT !.pc = "threw" ]
  ELSE AfterRetrieval(rq, << >>, 0)

\* searchIndex(rawQuery, index) up to  await openai.embeddings.create(...)
StartSearch(rq, ref) ==
  LET query == QueryOf(rq.question)
      r1    == [ rq EXCEPT !.index = ref, !.query = query,
                           !.searchCalls = @ + 1 ]
  IN IF Rejected(query) THEN AfterSearch(r1, << >>)
     ELSE [ r1 EXCEPT !.pc = "embed", !.embedCalls = @ + 1 ]

\* queryFaissIndex(question) with the store guard: vector_store.js
GuardedQuery(r, rq) ==
  IF globalIndex = Null THEN AfterRetrieval(rq, << >>, 0)
  ELSE StartSearch(rq, globalIndex)

\* const index = globalIndex || (await loadIndex(10000));
ReloadQuery(r, rq) ==
  IF globalIndex = Null THEN [ rq EXCEPT !.pc = "loading" ]
  ELSE StartSearch(rq, globalIndex)

\* const index = globalIndex || []; if (!index.length) return { joined: "", count: 0 };
EmptyGuardQuery(r, rq) ==
  LET index == IF globalIndex = Null THEN Ref(r) ELSE globalIndex
  IN IF Len(vectors[index[1]]) = 0 THEN AfterRetrieval(rq, << >>, 0)
     ELSE StartSearch(rq, index)

\* if (!indexReady || !globalIndex) return { joined: "", count: 0 };
ReadyQuery(r, rq) ==
  IF ~indexReady \/ globalIndex = Null THEN AfterRetrieval(rq, << >>, 0)
  ELSE StartSearch(rq, globalIndex)

\* queryFaissIndex(question) up to its first await on I/O.  atNull records
\* that the store was Unloaded when the query was issued.
QueryFaissIndex(r, rq0) ==
  LET rq == [ rq0 EXCEPT !.atNull = (globalIndex = Null) ]
  IN CASE variant = "guarded"    -> GuardedQuery(r, rq)
       [] variant = "reload"     -> ReloadQuery(r, rq)
       [] variant = "emptyguard" -> EmptyGuardQuery(r, rq)
       [] variant = "ready"      -> ReadyQuery(r, rq)

\* generateHSReport(query) up to its first await on I/O.
GenerateReport(r, rq) ==
  IF variant = "ready" /\ ~indexReady THEN Respond(rq, 200, "loading")
  ELSE QueryFaissIndex(r, rq)

\* A route handler whose 400 branch lacks the `return`: it answers 400 and
\* goes on to generate the report.
AskHandlerNoReturn(r, rq) ==
  IF ~Truthy(rq.question)
  THEN GenerateReport(r, [ rq EXCEPT !.status = 400, !.responses = @ + 1,
                                     !.answer = "missing" ])
  ELSE IF variant = "ready" /\ ~indexReady THEN Respond(rq, 200, "loading")
  ELSE GenerateReport(r, rq)

\* A route handler that rejects only an absent question:
\* if (question === undefined) return res.status(400)...
AskHandlerUndefinedOnly(r, rq) ==
  IF rq.question = Undefined THEN Respond(rq, 400, "missing")
  ELSE IF variant = "ready" /\ ~indexReady THEN Respond(rq, 200, "loading")
  ELSE GenerateReport(r, rq)

\* app.post("/ask", ...) up to its first await on I/O.
AskHandler(r, rq) ==
  IF ~Truthy(rq.question) THEN Respond(rq, 400, "missing")
  ELSE IF variant = "ready" /\ ~indexReady THEN Respond(rq, 200, "loading")
  ELSE GenerateReport(r, rq)

\* verifyOrigin(req, res, next) followed, on next(), by the route handler.
VerifyOrigin(r, rq) ==
  IF ~Truthy(rq.origin) THEN Respond(rq, 403, "no-origin")
  ELSE LET url == ParseURL(rq.origin.s)
       IN IF ~url.ok THEN Respond(rq, 400, "invalid-origin")
          ELSE IF ~Allowed(url.hostname) THEN Respond(rq, 403, "not-allowed")
          ELSE AskHandler(r, rq)

\* The route handler from the return of generateHSReport on.
AfterReport(rq) ==
  IF HasDelivery(variant) THEN [ rq EXCEPT !.pc = "render" ]
  ELSE Respond(rq, 200, "report")

\* ------------------------------------------------------- public/script.js

Handlers == 1 .. MaxHandlers

GenerateLabel  == "Generate Health & Safety Report"
PreparingLabel == "Preparing report"

\* A run of the click handler: its position, its local `question`, and the
\* response it got.
IdleRun == [ pc |-> "idle", question |-> << >>, ok |-> FALSE, body |-> "none" ]

\* The page once DOMContentLoaded has run.  hasClear: the document has an
\* element with id clearResultsBtn (clearBtn of line 92 is not null).
LoadedPage(hasClear, shown) ==
  [ hasClear |-> hasClear, disabled |-> FALSE, label |-> GenerateLabel,
    input |-> << >>, output |-> "empty", clearShown |-> shown,
    run |-> [ h \in Handlers |-> IdleRun ] ]

\* No page: the server processes.
NoPage == LoadedPage(FALSE, FALSE)

\* What the user may type into the question field.
Typed == { << >>, << " ", " " >>, << "a", "b", "c" >>, << " ", "x", "y" >> }

\* What fetch("/ask") may resolve to: res.ok and the kind of body.
Bodies == { "answer", "reportText", "error", "other", "unparsable" }

\* generateBtn.disabled = false; generateBtn.textContent = "Generate ...";
Restore(pg) == [ pg EXCEPT !.disabled = FALSE, !.label = GenerateLabel ]

\* The click handler up to  await fetch("/ask", ...) .  Without the
\* clearResultsBtn element line 29 throws a TypeError outside any try.
ClickHandler(pg, h) ==
  LET preparing == [ pg EXCEPT !.disabled = TRUE, !.label = PreparingLabel ]
  IN IF ~pg.hasClear THEN preparing
     ELSE IF Trim(pg.input) = << >>
     THEN Restore([ preparing EXCEPT !.clearShown = FALSE,
                                     !.output = "enter-question" ])
     ELSE [ preparing EXCEPT !.clearShown = FALSE, !.output = "wait",
                             !.run[h].pc = "fetching",
                             !.run[h].question = Trim(pg.input) ]

\* catch (err) { output.textContent = "Failed to contact backend: ..." }
\* and the statements after the try.
Caught(pg, h) ==
  Restore([ pg EXCEPT !.output = "failed", !.run[h] = IdleRun ])

\* From  const data = await res.json().catch(() => ({}))  to the end.
AfterJson(pg, h) ==
  LET rn   == pg.run[h]
      data == IF rn.body = "unparsable" THEN "other" ELSE rn.body
      out  == IF ~rn.ok THEN "server-error"
              ELSE IF data = "answer" THEN "answer"
              ELSE IF data = "reportText" THEN "reportText"
              ELSE "no-report"
  IN IF ~pg.hasClear THEN Caught([ pg EXCEPT !.output = out ], h)
     ELSE Restore([ pg EXCEPT !.output = out, !.clearShown = TRUE,
                              !.run[h] = IdleRun ])

\* ---------------------------------------------------------------- inputs

SeqsUpTo(S, n) == UNION { [ 1 .. k -> S ] : k \in 0 .. n }

MissingFile == [ exists |-> FALSE, recs |-> << >>, sep |-> "comma", trail |-> FALSE ]

\* The files a direct loadIndex call is tried on.
GenFiles ==
  { MissingFile } \cup
  { [ exists |-> TRUE, recs |-> rs, sep |-> sp, trail |-> tr ] :
      rs \in SeqsUpTo(RecKinds, MaxRecs), sp \in Separators, tr \in BOOLEAN }

\* The files the server is started on: none, an empty one, three records
\* one per line with a comma after each, and one line whose third record
\* is malformed and whose first has the small embedding [0.3, 0].
ServerFiles ==
  { MissingFile,
    [ exists |-> TRUE, recs |-> << >>, sep |-> "comma", trail |-> FALSE ],
    [ exists |-> TRUE, recs |-> << "G1", "G2", "G3" >>, sep |-> "commanl", trail |-> TRUE ],
    [ exists |-> TRUE, recs |-> << "G4", "G2", "B", "G1" >>, sep |-> "comma", trail |-> FALSE ] }

\* A file with irregular chunks: its second record has an embedding of
\* another dimension, its third has no embedding property at all.
IrregularFiles ==
  { [ exists |-> TRUE, recs |-> << "G1", "D", "M", "G3" >>, sep |-> "commanl",
      trail |-> TRUE ] }

ChunkOf(kind) == JSONparse(RecTokens(kind)).obj

KindAt(i) == CASE i = 0 -> "G1" [] i = 1 -> "G2" [] i = 2 -> "G3"

\* A store of n chunks: G1, G2, G3 in turn, starting at the k-th.
CycleStore(n, k) == [ i \in 1 .. n |-> ChunkOf(KindAt((i - 1 + k) % 3)) ]

\* The stores a direct searchIndex call is tried on: up to MaxRecs chunks,
\* and TopK and TopK + 1 chunks.
Stores ==
  { CycleStore(n, k) : n \in (0 .. MaxRecs) \cup { TopK, TopK + 1 }, k \in 0 .. 2 }

QAbc == << "a", "b", "c" >>
QXyz == << "x", "y", "z" >>

\* The Embedding Provider: a fixed table from accepted query to vector.
Providers ==
  { (QAbc :> << 10, 0 >>) @@ (QXyz :> << 7, 7 >>),
    (QAbc :> << 0, 10 >>) @@ (QXyz :> << 10, 0 >>),
    (QAbc :> << 7, 7 >>) @@ (QXyz :> << 7, 7 >>) }

ServerProviders ==
  { (QAbc :> << 10, 0 >>) @@ (QXyz :> << 1, 0 >>) }

\* The `question` values of /ask bodies.
ServerQuestions ==
  { Undefined,
    Str(<< >>),
    Str(<< " ", "a", "b", " " >>),
    Str(<< "a", "b", "c" >>),
    Str(<< " ", "x", "y", "z", "\n" >>) }

\* The Origin headers of /ask requests: req.get("Origin") is undefined when
\* the header is absent.
Https     == << "h", "t", "t", "p", "s", ":", "/", "/" >>
EvilIo    == << "e", "v", "i", "l", ".", "i", "o" >>
OriginExact     == Str(Https \o allowedDomains[1])
OriginUpperPort == Str(<< "H", "T", "T", "P", "S", ":", "/", "/", "A" >>
                       \o Tail(allowedDomains[1]) \o << ":", "8", "4", "4", "3" >>)
OriginSubdomain == Str(Https \o << "a", "p", "p", "." >> \o allowedDomains[2]
                       \o << "/" >>)
OriginNoDot     == Str(Https \o << "e", "v", "i", "l" >> \o allowedDomains[1])
OriginPrefix    == Str(Https \o allowedDomains[1] \o << "." >> \o EvilIo)
OriginUserinfo  == Str(Https \o allowedDomains[1] \o << "@" >> \o EvilIo)
OriginOther     == Str(Https \o EvilIo)
OriginNoScheme  == Str(allowedDomains[1])
OriginNullWord  == Str(<< "n", "u", "l", "l" >>)
OriginNoHost    == Str(Https)
OriginBadPort   == Str(Https \o allowedDomains[1] \o << ":", "x" >>)
OriginOpaque    == Str(<< "m", "a", "i", "l", "t", "o", ":" >> \o allowedDomains[1])

Origins ==
  { Undefined, Str(<< >>), OriginExact, OriginUpperPort, OriginSubdomain,
    OriginNoDot, OriginPrefix, OriginUserinfo, OriginOther, OriginNoScheme,
    OriginNullWord, OriginNoHost, OriginBadPort, OriginOpaque }

\* The `question` values sent with them.
OriginQuestions == { Undefined, Str(<< "a", "b", "c" >>) }

\* The rawQuery values of direct searchIndex calls.
RawQueries ==
  ServerQuestions \cup
  { NullV, Num(0), Num(12), Str(<< >>), Str(<< " ", " " >>) }

\* response.data[0].embedding for the input [query]
EmbeddingOf(query) ==
  IF query \in DOMAIN provider THEN provider[query] ELSE << 0, 0 >>

\* A query vector kept in one module-level variable: the request sees the
\* vector of the latest request still waiting for its embedding.
QVecShared(r) ==
  LET waiting == { s \in Requests : req[s].pc = "embed" }
      last    == CHOOSE s \in waiting : \A t \in waiting : t <= s
  IN EmbeddingOf(req[last].query)

\* const q = response.data[0].embedding: a local of the call, taken from
\* the response to the call's own input.
QVecOf(r) == EmbeddingOf(req[r].query)

\* ------------------------------------------------------------------ Init

InitCommon ==
  /\ page = NoPage
  /\ indexReady = FALSE
  /\ globalIndex = Null
  /\ req = [ r \in Requests |-> IdleReq ]

\* The process right after module evaluation: the preload has called
\* loadIndex(10000) and waits for the file to open.
Init ==
  /\ mode = "server"
  /\ variant \in Variants
  /\ storeKind = "dot"
  /\ file \in ServerFiles
  /\ provider \in ServerProviders
  /\ loader = [ p \in Loaders |->
                  IF p = Preload THEN StartedLoader(PreloadLimit) ELSE IdleLoader ]
  /\ vectors = [ p \in Loaders |-> << >> ]
  /\ loadCalls = [ p \in Loaders |-> IF p = Preload THEN 1 ELSE 0 ]
  /\ InitCommon

\* The process of the server that guards /ask with verifyOrigin.
InitOrigin ==
  /\ mode = "server"
  /\ variant = "emptyguard"
  /\ storeKind = "dot"
  /\ file \in ServerFiles
  /\ provider \in ServerProviders
  /\ loader = [ p \in Loaders |->
                  IF p = Preload THEN StartedLoader(PreloadLimit) ELSE IdleLoader ]
  /\ vectors = [ p \in Loaders |-> << >> ]
  /\ loadCalls = [ p \in Loaders |-> IF p = Preload THEN 1 ELSE 0 ]
  /\ InitCommon

\* The page after DOMContentLoaded, with or without a clearResultsBtn
\* element; no server process is part of the behaviour.
InitClient ==
  /\ mode = "client"
  /\ variant = "guarded"
  /\ storeKind = "dot"
  /\ file = MissingFile
  /\ provider \in ServerProviders
  /\ loader = [ p \in Loaders |-> IdleLoader ]
  /\ vectors = [ p \in Loaders |-> << >> ]
  /\ loadCalls = [ p \in Loaders |-> 0 ]
  /\ indexReady = FALSE
  /\ globalIndex = Null
  /\ req = [ r \in Requests |-> IdleReq ]
  /\ \E hasClear, shown \in BOOLEAN :
       /\ shown => hasClear
       /\ page = LoadedPage(hasClear, shown)

\* The process started on a file with irregular chunks.
InitIrregular ==
  /\ mode = "server"
  /\ variant \in Variants
  /\ storeKind = "dot"
  /\ file \in IrregularFiles
  /\ provider \in ServerProviders
  /\ loader = [ p \in Loaders |->
                  IF p = Preload THEN StartedLoader(PreloadLimit) ELSE IdleLoader ]
  /\ vectors = [ p \in Loaders |-> << >> ]
  /\ loadCalls = [ p \in Loaders |-> IF p = Preload THEN 1 ELSE 0 ]
  /\ InitCommon

\* A direct call loadIndex(limit) on a generated file.
InitLoad ==
  /\ mode = "load"
  /\ variant = "guarded"
  /\ storeKind = "dot"
  /\ file \in GenFiles
  /\ provider \in ServerProviders
  /\ \E limit \in 0 .. MaxLimit :
       loader = [ p \in Loaders |->
                    IF p = Preload THEN StartedLoader(limit) ELSE IdleLoader ]
  /\ vectors = [ p \in Loaders |-> << >> ]
  /\ loadCalls = [ p \in Loaders |-> IF p = Preload THEN 1 ELSE 0 ]
  /\ InitCommon

\* Direct calls searchIndex(rawQuery, index) on a given store.
InitSearch ==
  /\ mode = "search"
  /\ variant = "guarded"
  /\ storeKind \in { "dot", "faiss" }
  /\ file = MissingFile
  /\ provider \in Providers
  /\ loader = [ p \in Loaders |-> IdleLoader ]
  /\ \E store \in Stores :
       vectors = [ p \in Loaders |-> IF p = Preload THEN store ELSE << >> ]
  /\ loadCalls = [ p \in Loaders |-> 0 ]
  /\ InitCommon

\* ------------------------------------------------------- loadIndex actions

\* await fs.promises.open(INDEX_PATH, "r") completes.
OpenReturn(p) ==
  /\ loader[p].pc = "opening"
  /\ UNCHANGED << page, mode, variant, storeKind, file, vectors, loadCalls, provider >>
  /\ IF file.exists
     THEN /\ loader' = [ loader EXCEPT ![p].pc = "reading" ]
          /\ IF p = Preload /\ mode = "server" THEN PreloadOpened(p)
             ELSE UNCHANGED << globalIndex, indexReady >>
          /\ UNCHANGED req
     ELSE /\ loader' = [ loader EXCEPT ![p].pc = "threw" ]
          /\ IF p = Preload /\ mode = "server" THEN PreloadThrew
             ELSE UNCHANGED << globalIndex, indexReady >>
          /\ req' = IF p \in Requests
                    THEN [ req EXCEPT ![p] = SearchThrew(req[p]) ]
                    ELSE req

\* The stream delivers the next n tokens.
ReadChunk(p, n) ==
  /\ loader[p].pc = "reading"
  /\ n \in ReadSizes(p)
  /\ n >= 1
  /\ \E next \in { AfterChunk(loader[p], vectors[p], n) } :
       /\ loader' = [ loader EXCEPT ![p] = next.loader ]
       /\ vectors' = [ vectors EXCEPT ![p] = next.vectors ]
  /\ UNCHANGED << page, mode, variant, storeKind, file, globalIndex, indexReady,
                  loadCalls, req, provider >>

\* The stream ends: the for await loop is left and  await fd.close()  starts.
StreamEnd(p) ==
  /\ loader[p].pc = "reading"
  /\ loader[p].pos = Len(FileBytes(file))
  /\ loader' = [ loader EXCEPT ![p].pc = "closing" ]
  /\ UNCHANGED << page, mode, variant, storeKind, file, vectors, globalIndex,
                  indexReady, loadCalls, req, provider >>

\* await fd.close() completes and loadIndex returns `vectors` to its caller.
CloseReturn(p) ==
  /\ loader[p].pc = "closing"
  /\ loader' = [ loader EXCEPT ![p].pc = "returned" ]
  /\ UNCHANGED << page, mode, variant, storeKind, file, vectors, loadCalls, provider >>
  /\ IF p = Preload /\ mode = "server"
     THEN PreloadReturned(p) /\ UNCHANGED req
     ELSE IF p \in Requests
     THEN /\ req' = [ req EXCEPT ![p] = StartSearch(req[p], Ref(p)) ]
          /\ UNCHANGED << globalIndex, indexReady >>
     ELSE UNCHANGED << globalIndex, indexReady, req >>

\* --------------------------------------------------------- request actions

\* POST /ask arrives with `question` = qn.  loadFailed records that the
\* preload had already failed when the request was accepted.
Ask(r, qn) ==
  /\ mode = "server"
  /\ req[r].pc = "idle"
  /\ LET rq == AskHandler(r, [ req[r] EXCEPT
                                 !.question = qn,
                                 !.loadFailed = (loader[Preload].pc = "threw") ])
     IN /\ req' = [ req EXCEPT ![r] = rq ]
        /\ loader' = IF rq.pc = "loading"
                     THEN [ loader EXCEPT ![r] = StartedLoader(PreloadLimit) ]
                     ELSE loader
        /\ loadCalls' = IF rq.pc = "loading"
                        THEN [ loadCalls EXCEPT ![r] = @ + 1 ]
                        ELSE loadCalls
  /\ UNCHANGED << page, mode, variant, storeKind, file, vectors, globalIndex,
                  indexReady, provider >>

\* POST /ask arrives with the header Origin = origin and `question` = qn at
\* a server whose route is  app.post("/ask", verifyOrigin, handler) .
AskFrom(r, origin, qn) ==
  /\ mode = "server"
  /\ req[r].pc = "idle"
  /\ LET rq == VerifyOrigin(r, [ req[r] EXCEPT
                                   !.origin = origin,
                                   !.question = qn,
                                   !.loadFailed = (loader[Preload].pc = "threw") ])
     IN /\ req' = [ req EXCEPT ![r] = rq ]
        /\ loader' = IF rq.pc = "loading"
                     THEN [ loader EXCEPT ![r] = StartedLoader(PreloadLimit) ]
                     ELSE loader
        /\ loadCalls' = IF rq.pc = "loading"
                        THEN [ loadCalls EXCEPT ![r] = @ + 1 ]
                        ELSE loadCalls
  /\ UNCHANGED << page, mode, variant, storeKind, file, vectors, globalIndex,
                  indexReady, provider >>

\* A direct call searchIndex(raw, index) on the store vectors[Preload].
CallSearch(r, raw) ==
  /\ mode = "search"
  /\ req[r].pc = "idle"
  /\ req' = [ req EXCEPT ![r] =
                StartSearch([ req[r] EXCEPT !.question = raw ], Ref(Preload)) ]
  /\ UNCHANGED << page, mode, variant, storeKind, file, loader, vectors, globalIndex,
                  indexReady, loadCalls, provider >>

\* The caller of a direct call that has returned matches for an accepted
\* query calls searchIndex once more with the same rawQuery and the same
\* index; prev keeps what the first call returned.
CallAgain(r) ==
  /\ mode = "search"
  /\ req[r].pc = "returned"
  /\ req[r].embedCalls = 1
  /\ req[r].prev = Null
  /\ req' = [ req EXCEPT ![r] =
                StartSearch([ IdleReq EXCEPT !.question = req[r].question,
                                             !.prev = << req[r].matches >> ],
                            Ref(Preload)) ]
  /\ UNCHANGED << page, mode, variant, storeKind, file, loader, vectors, globalIndex,
                  indexReady, loadCalls, provider >>

\* await openai.embeddings.create(...) completes: with the embedding (ok) or
\* with an error.  libok: index.search of the FAISS variant returns; the
\* library may refuse k = 0.
EmbedReturn(r, ok, libok) ==
  /\ req[r].pc = "embed"
  /\ libok \/ (ok /\ storeKind = "faiss" /\ FaissK(vectors[req[r].index[1]]) = 0)
  /\ LET rq    == req[r]
         ref   == rq.index[1]
         q     == QVecOf(r)
     IN IF ok /\ libok
        THEN /\ req' = [ req EXCEPT ![r] =
                           AfterSearch([ rq EXCEPT !.qvec = q ],
                                       IF storeKind = "dot"
                                       THEN DotSearch(q, vectors[ref])
                                       ELSE FaissSearch(q, vectors[ref])) ]
             /\ vectors' = [ vectors EXCEPT ![ref] =
                               IF storeKind = "dot"
                               THEN IndexAfterSearch(q, vectors[ref])
                               ELSE vectors[ref] ]
        ELSE /\ req' = [ req EXCEPT ![r] =
                           SearchThrew([ rq EXCEPT !.embedFailed = ~ok ]) ]
             /\ vectors' = [ vectors EXCEPT ![ref] =
                               IF ok THEN vectors[ref]
                               ELSE IndexAfterFailure(vectors[ref]) ]
  /\ UNCHANGED << page, mode, variant, storeKind, file, loader, globalIndex,
                  indexReady, loadCalls, provider >>

\* await openai.chat.completions.create(...) of the report completes.
LlmReturn(r, ok) ==
  /\ req[r].pc = "llm"
  /\ req' = [ req EXCEPT ![r] =
                IF ~ok THEN Respond([ req[r] EXCEPT !.failed = "llm" ], 500, "error")
                ELSE IF HasFairness(variant)
                THEN [ req[r] EXCEPT !.pc = "fair", !.llmCalls = @ + 1 ]
                ELSE AfterReport(req[r]) ]
  /\ UNCHANGED << page, mode, variant, storeKind, file, loader, vectors, globalIndex,
                  indexReady, loadCalls, provider >>

\* The fairness audit call completes; its failure is caught.
FairReturn(r, ok) ==
  /\ req[r].pc = "fair"
  /\ req' = [ req EXCEPT ![r] = AfterReport(req[r]) ]
  /\ UNCHANGED << page, mode, variant, storeKind, file, loader, vectors, globalIndex,
                  indexReady, loadCalls, provider >>

\* buildPdfBufferStructured / Packer.toBuffer complete; then the Mailjet
\* send is issued.
RenderReturn(r, ok) ==
  /\ req[r].pc = "render"
  /\ req' = [ req EXCEPT ![r] =
                IF ok THEN [ req[r] EXCEPT !.pc = "mail", !.mails = @ + 1 ]
                ELSE Respond([ req[r] EXCEPT !.failed = "render" ], 500, "error") ]
  /\ UNCHANGED << page, mode, variant, storeKind, file, loader, vectors, globalIndex,
                  indexReady, loadCalls, provider >>

\* await fetch("https://api.mailjet.com/v3.1/send", ...) completes.  failed
\* records which awaited call of the handler threw, if any.
MailReturn(r, ok) ==
  /\ req[r].pc = "mail"
  /\ LET rq == [ req[r] EXCEPT !.failed = IF ok THEN @ ELSE "mail" ]
     IN req' = [ req EXCEPT ![r] =
                   IF ok \/ MailInTry(variant) THEN Respond(rq, 200, "report")
                   ELSE Respond(rq, 500, "error") ]
  /\ UNCHANGED << page, mode, variant, storeKind, file, loader, vectors, globalIndex,
                  indexReady, loadCalls, provider >>

\* ------------------------------------------------------------ page actions

\* The user edits the question field.
TypeQuestion(v) ==
  /\ mode = "client"
  /\ page' = [ page EXCEPT !.input = v ]
  /\ UNCHANGED serverVars

\* The user clicks the generate button; a disabled button dispatches no
\* click event.  h is the run of the handler that starts.
ClickGenerate(h) ==
  /\ mode = "client"
  /\ ~page.disabled
  /\ page.run[h].pc = "idle"
  /\ \A g \in Handlers : g < h => page.run[g].pc # "idle"
  /\ page' = ClickHandler(page, h)
  /\ UNCHANGED serverVars

\* await fetch("/ask", ...) completes: it rejects (ok = FALSE), or resolves
\* to a response with res.ok = resOk and a body of the given kind.
FetchReturn(h, ok, resOk, body) ==
  /\ mode = "client"
  /\ page.run[h].pc = "fetching"
  /\ page' = IF ok
             THEN [ page EXCEPT !.run[h].pc = "json",
                                !.run[h].ok = resOk,
                                !.run[h].body = body ]
             ELSE Caught(page, h)
  /\ UNCHANGED serverVars

\* await res.json().catch(() => ({})) completes.
JsonReturn(h) ==
  /\ mode = "client"
  /\ page.run[h].pc = "json"
  /\ page' = AfterJson(page, h)
  /\ UNCHANGED serverVars

\* clearBtn.addEventListener("click", ...), registered if (clearBtn).
ClickClear ==
  /\ mode = "client"
  /\ page.hasClear /\ page.clearShown
  /\ page' = [ page EXCEPT !.output = "empty", !.input = << >>,
                           !.clearShown = FALSE ]
  /\ UNCHANGED serverVars

\* ------------------------------------------------------------ specifications

LoadNext ==
  \E p \in Loaders :
    \/ OpenReturn(p)
    \/ \E n \in 1 .. Len(FileBytes(file)) : ReadChunk(p, n)
    \/ StreamEnd(p)
    \/ CloseReturn(p)

Next ==
  \/ LoadNext
  \/ \E r \in Requests :
       \/ \E qn \in ServerQuestions : Ask(r, qn)
       \/ \E ok \in BOOLEAN : EmbedReturn(r, ok, TRUE)
       \/ \E ok \in BOOLEAN : LlmReturn(r, ok)
       \/ \E ok \in BOOLEAN : FairReturn(r, ok)
       \/ \E ok \in BOOLEAN : RenderReturn(r, ok)
       \/ \E ok \in BOOLEAN : MailReturn(r, ok)

SearchNext ==
  \E r \in Requests :
    \/ \E raw \in RawQueries : CallSearch(r, raw)
    \/ CallAgain(r)
    \/ \E ok \in BOOLEAN, libok \in BOOLEAN : EmbedReturn(r, ok, libok)

\* The server process.
Spec == Init /\ [][Next]_vars

\* One turn of the event loop that completes an awaited operation: a file
\* operation of loadIndex, or a call to the Embedding Provider, the language
\* model, the renderer or the mail service returning or throwing.
Completion ==
  \/ LoadNext
  \/ \E r \in Requests :
       \/ \E ok \in BOOLEAN : EmbedReturn(r, ok, TRUE)
       \/ \E ok \in BOOLEAN : LlmReturn(r, ok)
       \/ \E ok \in BOOLEAN : FairReturn(r, ok)
       \/ \E ok \in BOOLEAN : RenderReturn(r, ok)
       \/ \E ok \in BOOLEAN : MailReturn(r, ok)

\* The server process when every awaited operation completes.
SpecLive == Init /\ [][Next]_vars /\ WF_vars(Completion)

OriginNext ==
  \/ LoadNext
  \/ \E r \in Requests :
       \/ \E origin \in Origins, qn \in OriginQuestions : AskFrom(r, origin, qn)
       \/ \E ok \in BOOLEAN : EmbedReturn(r, ok, TRUE)
       \/ \E ok \in BOOLEAN : LlmReturn(r, ok)
       \/ \E ok \in BOOLEAN : RenderReturn(r, ok)
       \/ \E ok \in BOOLEAN : MailReturn(r, ok)

\* The server process behind verifyOrigin.
SpecOrigin == InitOrigin /\ [][OriginNext]_vars

ClientNext ==
  \/ \E v \in Typed : TypeQuestion(v)
  \/ ClickClear
  \/ \E h \in Handlers :
       \/ ClickGenerate(h)
       \/ \E ok, resOk \in BOOLEAN, body \in Bodies : FetchReturn(h, ok, resOk, body)
       \/ JsonReturn(h)

\* The browser page.
SpecClient == InitClient /\ [][ClientNext]_vars

\* The server process on a file with irregular chunks.
SpecIrregular == InitIrregular /\ [][Next]_vars

\* Direct calls of loadIndex.
SpecLoad == InitLoad /\ [][LoadNext]_vars

\* Direct calls of searchIndex.
SpecSearch == InitSearch /\ [][SearchNext]_vars


\* ================================================================== claims

Range(s) == { s[i] : i \in 1 .. Len(s) }

Count(s, x) == Cardinality({ i \in 1 .. Len(s) : s[i] = x })

\* The records of a file that parse and hold an embedding, in file order,
\* taken record by record from the file's content.
RECURSIVE ParsableRecords(_)
ParsableRecords(recs) ==
  IF recs = << >> THEN << >>
  ELSE LET r == JSONparse(RecTokens(Head(recs)))
       IN (IF r.ok /\ "embedding" \in DOMAIN r.obj THEN << r.obj >> ELSE << >>)
          \o ParsableRecords(Tail(recs))

\* C1: for every chunk file and every limit >= 1, loadIndex returns exactly
\* the file's records that parse and hold an embedding, in file order, cut to
\* the first `limit`: none missing (the last record included), none twice;
\* one malformed record among n leaves n - 1.
C1_LoadReturnsParsableRecords ==
  (mode = "load" /\ loader[Preload].pc = "returned" /\ loader[Preload].limit >= 1)
    => vectors[Preload] = Take(ParsableRecords(file.recs), loader[Preload].limit)

\* The text of a raw query after trimming has fewer than 3 characters (none
\* for null and undefined; the decimal digits for a number).
TrimmedLen(s) ==
  LET ns == { i \in 1 .. Len(s) : s[i] \notin { " ", "\n", "\t" } }
  IN IF ns = { } THEN 0
     ELSE (CHOOSE i \in ns : \A j \in ns : j <= i)
          - (CHOOSE i \in ns : \A j \in ns : i <= j) + 1

ShortRaw(raw) ==
  CASE raw.t = "string" -> TrimmedLen(raw.s) < 3
    [] raw.t = "number" -> raw.n < 100
    [] OTHER -> TRUE

\* C2: a query that is empty or shorter than 3 characters after trimming
\* (non-string, null and undefined inputs included) makes searchIndex return
\* the empty sequence without any call of the Embedding Provider.
C2_ShortQueryRejected ==
  \A r \in Requests :
    (req[r].pc # "idle" /\ ShortRaw(req[r].question))
      => /\ req[r].pc = "returned"
         /\ req[r].matches = << >>
         /\ req[r].embedCalls = 0

C2_Witness ==
  \E r1, r2 \in Requests :
    /\ req[r1].question = NullV /\ req[r1].pc = "returned"
    /\ req[r2].question = Str(<< " ", "a", "b", " " >>) /\ req[r2].pc = "returned"

SortedDesc(ms) ==
  \A i \in 1 .. Len(ms) - 1 : ms[i].score >= ms[i + 1].score

Dot2(a, b) == a[1] * b[1] + a[2] * b[2]

\* A match without its score field.
Unscored(m) == [ k \in (DOMAIN m) \ { "score" } |-> m[k] ]

\* C4: in the dot-product searchIndex every match scores the dot product of
\* the query embedding and its chunk's embedding, the matches are chunks of
\* the store (none more often than the store holds it), and no chunk left
\* out scores strictly higher than a returned one; chunks [1,0], [0,1],
\* [0.7,0.7] with query [1,0] give chunk 1 (1.0) then chunk 3 (0.7) first.
C4_DotProductTopK ==
  \A r \in Requests :
    (storeKind = "dot" /\ req[r].pc = "returned" /\ ~ShortRaw(req[r].question))
      => LET ms    == req[r].matches
             q     == req[r].qvec
             store == vectors[Preload]
             plain == [ i \in 1 .. Len(ms) |-> Unscored(ms[i]) ]
         IN /\ \A i \in 1 .. Len(ms) : ms[i].score = Dot2(q, ms[i].embedding)
            /\ \A i \in 1 .. Len(ms) : Count(plain, plain[i]) <= Count(store, plain[i])
            /\ Len(ms) = Min(10, Len(store))
            /\ \A c \in Range(store) :
                 Count(store, c) > Count(plain, c)
                   => \A i \in 1 .. Len(ms) : Dot2(q, c.embedding) <= ms[i].score
            /\ (store = << ChunkOf("G1"), ChunkOf("G2"), ChunkOf("G3") >> /\ q = << 10, 0 >>)
                 => /\ plain[1] = ChunkOf("G1") /\ ms[1].score = 100
                    /\ plain[2] = ChunkOf("G3") /\ ms[2].score = 70

C4_Witness ==
  \E r \in Requests :
    /\ storeKind = "dot"
    /\ req[r].pc = "returned"
    /\ vectors[Preload] = << ChunkOf("G1"), ChunkOf("G2"), ChunkOf("G3") >>
    /\ req[r].qvec = << 10, 0 >>
    /\ Len(req[r].matches) = 3

\* C5: no /ask request triggers a load: loadIndex is invoked exactly once per
\* process, by the startup preload, whatever the requests and their timing.
C5_LoadOncePerProcess ==
  /\ loadCalls[Preload] = 1
  /\ \A r \in Requests : loadCalls[r] = 0

\* C6: the store is Unloaded (globalIndex = null) or Loaded (globalIndex =
\* the array the startup loadIndex returned); the only transition is
\* Unloaded -> Loaded, made by the return of the startup load; once Loaded,
\* globalIndex is never reassigned or reset and its content never changes.
C6_StoreStateMachine ==
  /\ [](/\ globalIndex \in { Null, Ref(Preload) }
        /\ globalIndex # Null => loader[Preload].pc = "returned")
  /\ [][ /\ globalIndex # Null
              => /\ globalIndex' = globalIndex
                 /\ vectors'[Preload] = vectors[Preload]
         /\ (globalIndex = Null /\ globalIndex' # Null)
              => /\ loader[Preload].pc = "closing"
                 /\ loader'[Preload].pc = "returned"
                 /\ globalIndex' = Ref(Preload) ]_vars

C6_Witness ==
  /\ globalIndex = Ref(Preload)
  /\ Len(vectors[Preload]) = 3
  /\ \A r \in Requests :
       req[r].pc = "done" /\ req[r].searched /\ Len(req[r].matches) = 3

\* C7: a search issued while the store is Unloaded returns
\* { joined: "", count: 0 }, raises no error and makes no embedding call.
C7_UnloadedSearchEmpty ==
  \A r \in Requests :
    req[r].atNull
      => /\ req[r].embedCalls = 0
         /\ req[r].retrieved => (req[r].joined = << >> /\ req[r].count = 0)

\* C8 as stated: on a store of 0 chunks searchIndex returns the empty
\* sequence for every query, accepted or rejected, and raises no error.
C8_EmptyStoreNeverFails ==
  \A r \in Requests :
    (Len(vectors[Preload]) = 0 /\ req[r].pc \notin { "idle", "embed" })
      => (req[r].pc = "returned" /\ req[r].matches = << >>)

\* C8 as amended: on a store of 0 chunks searchIndex returns the empty
\* sequence for every rejected query, without error, and whenever it returns
\* for an accepted one; the dot-product searchIndex raises only when the
\* Embedding Provider call has failed.
C8_EmptyStoreAmended ==
  \A r \in Requests :
    (Len(vectors[Preload]) = 0 /\ req[r].pc # "idle")
      => /\ ShortRaw(req[r].question)
              => (req[r].pc = "returned" /\ req[r].embedCalls = 0)
         /\ req[r].pc = "returned" => req[r].matches = << >>
         /\ (storeKind = "dot" /\ req[r].pc # "embed")
              => (req[r].pc = "threw" <=> req[r].embedFailed)

C8_Witness ==
  \E r1, r2 \in Requests :
    /\ Len(vectors[Preload]) = 0
    /\ storeKind = "dot"
    /\ req[r1].pc = "returned" /\ req[r1].embedCalls = 1 /\ req[r1].matches = << >>
    /\ req[r2].pc = "threw" /\ req[r2].embedFailed

\* C9: searchIndex does not mutate the store: an array loadIndex has
\* returned keeps its length, its order and its records under any
\* interleaving of searches, and no stored chunk gains a score field.
C9_SearchLeavesStore ==
  /\ [](\A p \in Loaders : \A i \in 1 .. Len(vectors[p]) :
          "score" \notin DOMAIN vectors[p][i])
  /\ [][ \A p \in Loaders :
           loader[p].pc = "returned" => vectors'[p] = vectors[p] ]_vars

C9_Witness ==
  /\ globalIndex = Ref(Preload)
  /\ Len(vectors[Preload]) = 3
  /\ \A r \in Requests :
       /\ req[r].searched
       /\ Len(req[r].matches) = 3
       /\ Unscored(req[r].matches[2]) # vectors[Preload][2]
  /\ req[1].query # req[2].query

\* C10: a failed Embedding Provider call in one request leaves globalIndex
\* and every chunk array unchanged and touches no other request; what any
\* request's search returns stays the search of its own query over the
\* store.
C10_EmbedFailureIsolated ==
  /\ [][ (\E r \in Requests : req'[r].embedFailed /\ ~req[r].embedFailed)
           => /\ vectors' = vectors
              /\ globalIndex' = globalIndex
              /\ indexReady' = indexReady
              /\ \A r2 \in Requests :
                   (req'[r2].embedFailed = req[r2].embedFailed)
                     => req'[r2] = req[r2] ]_vars
  /\ [](\A r \in Requests :
          (req[r].searched /\ req[r].embedCalls = 1)
            => /\ req[r].matches
                    = DotSearch(EmbeddingOf(req[r].query), vectors[req[r].index[1]])
               /\ Len(req[r].matches) = Min(10, Len(vectors[req[r].index[1]])))

C10_Witness ==
  \E r1, r2 \in Requests :
    /\ req[r1].embedFailed /\ req[r1].retrieved /\ req[r1].count = 0
    /\ req[r2].searched /\ req[r2].embedCalls = 1 /\ req[r2].count > 0
    /\ req[r1].index = req[r2].index

\* C11: queryFaissIndex is fail-soft: whenever an error is raised on its
\* search path (the Embedding Provider call fails or its response cannot be
\* used, or the request-path loadIndex throws), queryFaissIndex returns
\* exactly { joined: "", count: 0 } to generateHSReport, which goes on to
\* the report's model call; nothing is thrown to the caller.
C11_QueryFailSoft ==
  \A r \in Requests :
    (mode = "server" /\ (req[r].embedFailed \/ loader[r].pc = "threw"))
      => /\ req[r].retrieved
         /\ req[r].joined = << >>
         /\ req[r].count = 0
         /\ req[r].llmCalls >= 1
         /\ ~req[r].searched

C11_Witness ==
  \E r \in Requests :
    /\ req[r].embedFailed
    /\ req[r].retrieved /\ req[r].joined = << >> /\ req[r].count = 0
    /\ req[r].pc = "llm"

\* C12: when the index file cannot be opened, loadIndex fails with an
\* error and returns no store, and the failure aborts startup: no /ask
\* request is accepted and answered 200 after the load has failed.
C12_LoadFailureAbortsStartup ==
  /\ (mode = "server" /\ ~file.exists /\ loader[Preload].pc # "opening")
       => /\ loader[Preload].pc = "threw"
          /\ globalIndex = Null
          /\ vectors[Preload] = << >>
  /\ \A r \in Requests : req[r].loadFailed => req[r].status # 200

RECURSIVE KeptTexts(_)
KeptTexts(ms) ==
  IF ms = << >> THEN << >>
  ELSE (IF Head(ms).score * 100 >= 3 * Scale * Scale
        THEN << Head(ms).text >> ELSE << >>)
       \o KeptTexts(Tail(ms))

IsText(piece) == piece # "\n\n"

\* C14: the context queryFaissIndex returns holds the text of exactly those
\* matches searchIndex returned whose score is >= 0.03, in the order search
\* returned them, and count is their number; a match below the cutoff
\* contributes nothing.
C14_CutoffApplied ==
  \A r \in Requests :
    (mode = "server" /\ req[r].searched /\ req[r].retrieved)
      => /\ SelectSeq(req[r].joined, IsText) = KeptTexts(req[r].matches)
         /\ req[r].count = Len(KeptTexts(req[r].matches))
         /\ Len(req[r].joined) = IF req[r].count = 0 THEN 0
                                 ELSE 2 * req[r].count - 1

C14_Witness ==
  \E r \in Requests :
    /\ mode = "server" /\ req[r].searched /\ req[r].retrieved
    /\ Len(req[r].matches) = 2
    /\ req[r].matches[1].score * 100 = 3 * Scale * Scale
    /\ req[r].matches[2].score * 100 < 3 * Scale * Scale
    /\ req[r].joined = << "delta" >>
    /\ req[r].count = 1

\* C15: every match searchIndex returns carries all the fields of its
\* stored chunk unchanged (text, embedding, any pass-through field) plus
\* the score, so that the caller can read the text of each match.
C15_MatchCarriesChunk ==
  \A r \in Requests :
    (mode = "search" /\ req[r].pc = "returned")
      => \A i \in 1 .. Len(req[r].matches) :
           LET m == req[r].matches[i]
           IN /\ "score" \in DOMAIN m
              /\ "text" \in DOMAIN m
              /\ \E j \in 1 .. Len(vectors[Preload]) :
                   LET v == vectors[Preload][j]
                   IN /\ DOMAIN m = DOMAIN v \cup { "score" }
                      /\ \A k \in DOMAIN v : m[k] = v[k]

\* What loadIndex makes of the file when the stream delivers it whole, in
\* one chunk.
OneChunkLoad(f, limit) ==
  ProcessParts(PartsOf(FileBytes(f)), << >>, limit).vectors

\* C16: the result of loadIndex does not depend on how the stream cuts the
\* file: for every file and every cut into chunks (inside a record, or
\* between the "}" and the "," of a separator) it returns the records it
\* returns when the file arrives in one chunk, and every record it returns
\* is a whole record of the file, never a part of one.
C16_ChunkingIndependent ==
  (mode = "load" /\ loader[Preload].pc = "returned")
    => /\ vectors[Preload] = OneChunkLoad(file, loader[Preload].limit)
       /\ \A i \in 1 .. Len(vectors[Preload]) :
            vectors[Preload][i] \in Range(ParsableRecords(file.recs))

C16_Witness ==
  /\ mode = "load" /\ loader[Preload].pc = "returned"
  /\ loader[Preload].reads = 2
  /\ loader[Preload].cutSep
  /\ Len(vectors[Preload]) = 2
  /\ Len(file.recs) = 3

\* The Embedding Provider's vector for the trimmed text of a question.
OwnVector(question) == provider[Trim(question.s)]

\* C17: concurrent searches are isolated: under every interleaving, the
\* query vector a request scores with is the embedding of its own question,
\* every score in its result is the dot product of that vector with the
\* match's embedding, and every match is a chunk of the store the request
\* read: nothing in a result was computed for another request.
C17_SearchesIsolated ==
  \A r \in Requests :
    (mode = "server" /\ req[r].searched /\ req[r].embedCalls = 1)
      => /\ req[r].qvec = OwnVector(req[r].question)
         /\ \A i \in 1 .. Len(req[r].matches) :
              LET m == req[r].matches[i]
              IN /\ m.score = Dot2(OwnVector(req[r].question), m.embedding)
                 /\ Unscored(m) \in Range(vectors[req[r].index[1]])

C17_Witness ==
  \E r1, r2 \in Requests :
    /\ mode = "server"
    /\ req[r1].searched /\ req[r1].embedCalls = 1
    /\ req[r2].searched /\ req[r2].embedCalls = 1
    /\ req[r1].qvec # req[r2].qvec
    /\ req[r1].index = req[r2].index
    /\ Len(req[r1].matches) = 3
    /\ req[r1].matches[1].score # req[r2].matches[1].score

\* C18: for every limit >= 0 (0 included, and a limit smaller than the
\* number of records in the first stream chunk), loadIndex at no point
\* holds more than `limit` records, so it returns at most `limit` and adds
\* no record once the limit is reached.
C18_LimitRespected ==
  mode = "load" => Len(vectors[Preload]) <= loader[Preload].limit

\* C19: a request never observes a partially loaded store: under every
\* interleaving of the startup load with requests, globalIndex, and the
\* index any request searches, is null or an array a completed loadIndex
\* has returned, never one that is still being filled.
C19_NoPartialStore ==
  /\ globalIndex # Null => loader[globalIndex[1]].pc = "returned"
  /\ \A r \in Requests :
       req[r].index # Null => loader[req[r].index[1]].pc = "returned"

C19_Witness ==
  \E r1, r2 \in Requests :
    /\ req[r1].atNull /\ req[r1].index = Null /\ req[r1].retrieved
    /\ ~req[r1].loadFailed
    /\ req[r2].index = Ref(Preload) /\ req[r2].searched
    /\ Len(req[r2].matches) = Len(vectors[Preload])
    /\ Len(vectors[Preload]) = 3

\* The score of the i-th chunk of a store for a query vector of dimension 2.
ScoreAt(q, store, i) == Dot2(q, store[i].embedding)

\* The place of the i-th chunk in the order "higher score first, and among
\* equal scores the chunk stored first".
RankOf(q, store, i) ==
  1 + Cardinality({ j \in 1 .. Len(store) :
                      \/ ScoreAt(q, store, j) > ScoreAt(q, store, i)
                      \/ /\ ScoreAt(q, store, j) = ScoreAt(q, store, i)
                         /\ j < i })

\* C20: when chunks have equal scores the dot-product searchIndex returns
\* them in store insertion order: the k-th match is the chunk that is k-th
\* by descending score with ties broken by position in the store, so the
\* result is determined by the embeddings also when ties occur.
C20_TiesInInsertionOrder ==
  \A r \in Requests :
    (mode = "search" /\ storeKind = "dot" /\ req[r].pc = "returned"
       /\ req[r].embedCalls = 1)
      => LET store == vectors[Preload]
             q     == provider[req[r].query]
         IN \A k \in 1 .. Len(req[r].matches) :
              \E i \in 1 .. Len(store) :
                /\ RankOf(q, store, i) = k
                /\ Unscored(req[r].matches[k]) = store[i]
                /\ req[r].matches[k].score = ScoreAt(q, store, i)

C20_Witness ==
  \E r \in Requests :
    /\ mode = "search" /\ storeKind = "dot" /\ req[r].pc = "returned"
    /\ Len(req[r].matches) = 3
    /\ req[r].matches[2].score = req[r].matches[3].score
    /\ Unscored(req[r].matches[2]) = vectors[Preload][1]
    /\ Unscored(req[r].matches[3]) = vectors[Preload][2]
    /\ vectors[Preload][1] # vectors[Preload][2]

\* The chunk a match was made from has no embedding, or one whose dimension
\* differs from the query vector's.
Irregular(m, q) ==
  "embedding" \notin DOMAIN m \/ Len(m.embedding) # Len(q)

\* C21: a chunk whose embedding is missing or of another dimension than the
\* query embedding does not make search fail: once the embedding call has
\* returned, searchIndex returns the whole store sorted by score, such a
\* chunk has score 0, and the 0.03 cutoff keeps its text out of the
\* context.
C21_IrregularChunkScoresZero ==
  \A r \in Requests :
    (req[r].embedCalls = 1 /\ ~req[r].embedFailed
       /\ req[r].pc \notin { "idle", "loading", "embed" })
      => /\ req[r].searched
         /\ Len(req[r].matches) = Len(vectors[req[r].index[1]])
         /\ SortedDesc(req[r].matches)
         /\ \A i \in 1 .. Len(req[r].matches) :
              LET m == req[r].matches[i]
              IN Irregular(m, req[r].qvec)
                   => /\ m.score = 0
                      /\ \A j \in 1 .. Len(req[r].joined) :
                           req[r].joined[j] # m.text
         /\ req[r].count
              = Cardinality({ i \in 1 .. Len(req[r].matches) :
                                ~Irregular(req[r].matches[i], req[r].qvec)
                                /\ req[r].matches[i].score * 100
                                     >= 3 * Scale * Scale })

C21_Witness ==
  \E r \in Requests :
    /\ req[r].searched /\ req[r].retrieved
    /\ Len(req[r].matches) = 4
    /\ "embedding" \notin DOMAIN req[r].matches[4]
    /\ Len(req[r].matches[3].embedding) = 3
    /\ req[r].matches[3].score = 0
    /\ req[r].matches[2].score > 0
    /\ req[r].count = 2

\* Retrieval gave nothing for the request: the store was Unloaded, the
\* query was rejected, or the embedding call failed.
RetrievalFailed(rq) ==
  rq.atNull \/ (rq.searchCalls = 1 /\ rq.embedCalls = 0) \/ rq.embedFailed

\* C22: retrieval failure alone never makes /ask fail: when the store is
\* Unloaded, the query is rejected or the embedding call fails, the report
\* is generated from the empty context with count 0 and, unless report
\* generation or rendering throws, the answer is 200; a 500 is sent only
\* when report generation or document rendering has thrown.
C22_RetrievalFailureNever500 ==
  \A r \in Requests :
    /\ (RetrievalFailed(req[r]) /\ req[r].retrieved)
         => (req[r].joined = << >> /\ req[r].count = 0 /\ req[r].llmCalls >= 1)
    /\ (RetrievalFailed(req[r]) /\ req[r].pc = "done"
           /\ req[r].failed \notin { "llm", "render" })
         => req[r].status = 200
    /\ req[r].status = 500 => req[r].failed \in { "llm", "render" }

\* C23: every /ask request receives exactly one HTTP response, 400, 200 or
\* 500: no path of the handler sends two, a finished handler has sent one,
\* and, every awaited call eventually returning or throwing, an accepted
\* request is eventually answered.
C23_ExactlyOneResponse ==
  /\ [](\A r \in Requests :
          /\ req[r].responses <= 1
          /\ req[r].pc = "done" <=> req[r].responses = 1
          /\ req[r].responses = 1 => req[r].status \in { 400, 200, 500 }
          /\ req[r].responses = 0 => req[r].status = 0)
  /\ \A r \in Requests : (req[r].pc # "idle") ~> (req[r].pc = "done")

C23_Witness ==
  \E r1, r2 \in Requests :
    /\ req[r1].pc = "done" /\ req[r1].status = 200 /\ req[r1].mails = 1
    /\ req[r1].responses = 1
    /\ req[r2].pc = "done" /\ req[r2].status = 500 /\ req[r2].responses = 1

\* C24: in the indexReady variant, indexReady = true implies that
\* globalIndex is non-null in every reachable state, and a request with a
\* question that arrives while indexReady is false is answered 200 with the
\* "still loading" message in the same turn, without a call to searchIndex,
\* the Embedding Provider or the language model.
C24_ReadyGate ==
  /\ [](variant = "ready" =>
          /\ indexReady => globalIndex # Null
          /\ \A r \in Requests :
               req[r].answer = "loading" =>
                 /\ req[r].pc = "done" /\ req[r].status = 200
                 /\ req[r].searchCalls = 0 /\ req[r].embedCalls = 0
                 /\ req[r].llmCalls = 0 /\ req[r].mails = 0)
  /\ [][ \A r \in Requests :
           ( /\ variant = "ready" /\ ~indexReady
             /\ req[r].pc = "idle" /\ req'[r].pc # "idle"
             /\ Truthy(req'[r].question) )
           => req'[r].pc = "done" /\ req'[r].answer = "loading" ]_vars

C24_Witness ==
  \E r1, r2 \in Requests :
    /\ variant = "ready" /\ indexReady /\ globalIndex # Null
    /\ req[r1].pc = "done" /\ req[r1].answer = "loading"
    /\ Truthy(req[r1].question)
    /\ req[r2].pc = "done" /\ req[r2].answer = "report"

C26_MailFailureKeeps200 ==
  \A r \in Requests :
    (req[r].pc = "done" /\ req[r].mails = 1)
      => (req[r].status = 200 /\ req[r].answer = "report")

\* str ends with suf.
IsSuffix(suf, str) ==
  \E k \in 0 .. Len(str) : SubSeq(str, k + 1, Len(str)) = suf

\* The header parses as a URL whose hostname is an allowed domain or ends
\* with "." followed by an allowed domain.
FromAllowedHost(o) ==
  /\ o.t = "string"
  /\ ParseURL(o.s).ok
  /\ \E k \in 1 .. Len(allowedDomains) :
       \/ ParseURL(o.s).hostname = allowedDomains[k]
       \/ IsSuffix(<< "." >> \o allowedDomains[k], ParseURL(o.s).hostname)

\* Nothing was done for the request beyond answering it.
Untouched(rq) ==
  /\ rq.pc = "done" /\ rq.responses = 1
  /\ rq.searchCalls = 0 /\ rq.embedCalls = 0 /\ rq.llmCalls = 0
  /\ rq.mails = 0 /\ ~rq.retrieved /\ rq.answer \notin { "report", "missing" }

\* C27: verifyOrigin lets a request reach the /ask handler only if its
\* Origin header parses as a URL whose hostname equals an allowed domain or
\* ends with "." followed by an allowed domain.  A request with no Origin
\* gets 403, one with a disallowed hostname (an allowed domain as a suffix
\* without the dot, or as a prefix) gets 403, one with an unparsable Origin
\* gets 400, and in these cases no report is generated and no email sent.
C27_OriginGate ==
  \A r \in Requests :
    req[r].pc # "idle" =>
      /\ (req[r].answer \in { "missing", "report", "error" }
             \/ req[r].pc # "done") => FromAllowedHost(req[r].origin)
      /\ ~FromAllowedHost(req[r].origin) => Untouched(req[r])
      /\ req[r].origin \in { Undefined, Str(<< >>) } => req[r].status = 403
      /\ req[r].origin \in { OriginNoDot, OriginPrefix, OriginOther,
                              OriginUserinfo, OriginOpaque }
           => req[r].status = 403
      /\ req[r].origin \in { OriginNoScheme, OriginNullWord, OriginNoHost,
                              OriginBadPort }
           => req[r].status = 400
      /\ req[r].origin \in { OriginExact, OriginUpperPort, OriginSubdomain }
           => req[r].status \notin { 403 } /\ req[r].answer # "invalid-origin"

C27_Witness ==
  \E r1, r2 \in Requests :
    /\ req[r1].origin = OriginNoDot /\ req[r1].status = 403
    /\ Truthy(req[r1].question)
    /\ req[r2].origin = OriginUpperPort /\ req[r2].pc = "done"
    /\ req[r2].answer = "report" /\ req[r2].mails = 1

\* The fetches of /ask the page has in flight.
InFlight == { h \in Handlers : page.run[h].pc = "fetching" }

\* C28: in the browser client the generate button is disabled from the
\* start of a click handler until that handler finishes, and on every path
\* it ends enabled again with its original label: at most one /ask request
\* from the page is in flight, and the button is never disabled with no
\* handler left to enable it.
C28_ButtonRestored ==
  mode = "client" =>
    /\ (\E h \in Handlers : page.run[h].pc # "idle") => page.disabled
    /\ (\A h \in Handlers : page.run[h].pc = "idle")
         => (~page.disabled /\ page.label = GenerateLabel)
    /\ Cardinality(InFlight) <= 1

=============================================================================
